---- MODULE Spec2Model ----
(***************************************************************************)
(* BunNodeModulesCollector                                                 *)
(* (packages/app-builder-lib/src/node-module-collector/                    *)
(*  bunNodeModulesCollector.ts)                                            *)
(*                                                                         *)
(* The collector walks node_modules directories and package.json manifests *)
(* to build a tree of installed packages (getDependenciesTree), flattens   *)
(* it into the Transitive Map (collectAllDependencies) and derives the     *)
(* Production Graph (extractProductionDependencyGraph).                    *)
(*                                                                         *)
(* Strings of the program are TLA+ strings; a directory is the sequence of *)
(* its path segments (<<>> is "/"); a JavaScript Map or plain object is a  *)
(* function whose DOMAIN is its key set; the recursion of the async        *)
(* methods is an explicit stack of frames.                                 *)
(***************************************************************************)
EXTENDS Naturals, Sequences, FiniteSets, TLC

VARIABLES
    pc,                     \* position of the run: which method is executing
    fsLinks,                \* file system, as observed: candidate path -> real directory, or Absent
    fsManifests,            \* file system, as observed: directory -> manifest, or Unreadable
    find,                   \* the running findInstalledDependency call
    stack,                  \* call chain of getDependenciesTree / loadDependency
    heap,                   \* the BunDependency objects built so far, by object identity
    tree,                   \* what getDependenciesTree returned
    dependencyCacheByPath,  \* line 18
    processingPaths,        \* line 19
    referenceByPath,        \* line 20
    pathByNameVersion,      \* line 21
    allDependencies,        \* the Transitive Map (base class field)
    productionGraph,        \* the Production Graph (base class field)
    cstack,                 \* call chain of collectAllDependencies
    estack,                 \* call chain of extractProductionDependencyGraph
    allocLog,               \* history: the createReference calls, in order
    hist                    \* history: what the run did (read by the properties only)

fsVars    == <<fsLinks, fsManifests>>
allocVars == <<referenceByPath, pathByNameVersion, allocLog>>
buildVars == <<find, stack, heap, tree, dependencyCacheByPath, processingPaths>>
outVars   == <<allDependencies, productionGraph, cstack, estack>>
vars      == <<pc, fsVars, allocVars, buildVars, outVars, hist>>

(***************************************************************************)
(* JavaScript values                                                       *)
(***************************************************************************)
Undefined == "<undefined>"

\* if (s) / if (!s) on a string | undefined: "" and undefined are falsy.
Truthy(s) == s # Undefined /\ s # ""

\* x ?? d
Coalesce(x, d) == IF x = Undefined THEN d ELSE x

EmptyMap == [k \in {} |-> k]

Has(m, k) == k \in DOMAIN m

\* Map.prototype.get for a string-valued map.
Get(m, k) == IF k \in DOMAIN m THEN m[k] ELSE Undefined

Put(m, k, v) == [x \in (DOMAIN m) \cup {k} |-> IF x = k THEN v ELSE m[x]]

Last(s) == s[Len(s)]

Range(s) == {s[i] : i \in 1..Len(s)}

(***************************************************************************)
(* Directories                                                             *)
(***************************************************************************)
FsRoot  == <<>>                                   \* "/"
RootDir == <<"p">>                                \* this.rootDir, "/p"
WsDir   == <<"w">>                                \* "/w", a workspace package outside rootDir
DirA    == <<"p", "node_modules", "a">>
DirB    == <<"p", "node_modules", "b">>
DirAB   == <<"p", "node_modules", "a", "node_modules", "b">>
DirBA   == <<"p", "node_modules", "b", "node_modules", "a">>

\* path.join(dir, "node_modules", name)
Candidate(dir, name) == dir \o <<"node_modules", name>>

\* path.dirname(dir): the parent, and "/" for "/"
Dirname(dir) == IF dir = FsRoot THEN FsRoot ELSE SubSeq(dir, 1, Len(dir) - 1)

\* createHash("sha1").update(realDir).digest("hex").slice(0, 8), tabulated for
\* the directories of the model (the SHA-1 of "/p/node_modules/a", ...).
Digest(realDir) ==
    CASE realDir = RootDir -> "ca85a389"
      [] realDir = WsDir   -> "71a0bcb0"
      [] realDir = DirA    -> "ea583651"
      [] realDir = DirB    -> "4272f6ef"
      [] realDir = DirAB   -> "2b3c2f2a"
      [] realDir = DirBA   -> "e63c3379"

(***************************************************************************)
(* Reference Allocator: createReference                                    *)
(***************************************************************************)
AllocResult(reference, rbp, pbnv) ==
    [reference |-> reference, referenceByPath |-> rbp, pathByNameVersion |-> pbnv]

\* A plausible slip: the collision branch forgets the path digest.
CreateReferenceNoDigest(name, version, realDir, rbp, pbnv) ==
    LET cachedReference   == Get(rbp, realDir)
        normalizedVersion == Coalesce(version, "0.0.0")
        key               == name \o "@" \o normalizedVersion
    IN  IF Truthy(cachedReference)
        THEN AllocResult(cachedReference, rbp, pbnv)
        ELSE IF ~Has(pbnv, key)
        THEN AllocResult(normalizedVersion, Put(rbp, realDir, normalizedVersion),
                         Put(pbnv, key, realDir))
        ELSE AllocResult(normalizedVersion, Put(rbp, realDir, normalizedVersion), pbnv)

\* A plausible slip: every path gets the digest suffix, the first claimant too.
CreateReferenceAlwaysDigest(name, version, realDir, rbp, pbnv) ==
    LET cachedReference   == Get(rbp, realDir)
        normalizedVersion == Coalesce(version, "0.0.0")
        key               == name \o "@" \o normalizedVersion
        uniqueReference   == normalizedVersion \o "+" \o Digest(realDir)
    IN  IF Truthy(cachedReference)
        THEN AllocResult(cachedReference, rbp, pbnv)
        ELSE AllocResult(uniqueReference, Put(rbp, realDir, uniqueReference),
                         IF Has(pbnv, key) THEN pbnv ELSE Put(pbnv, key, realDir))

\* createReference(name, version, realDir), lines 199-224: the reference it
\* returns and the two tables after the call.
CreateReference(name, version, realDir, rbp, pbnv) ==
    LET cachedReference   == Get(rbp, realDir)
        normalizedVersion == Coalesce(version, "0.0.0")
        key               == name \o "@" \o normalizedVersion
        hash              == Digest(realDir)
        uniqueReference   == normalizedVersion \o "+" \o hash
    IN  IF Truthy(cachedReference)
        THEN AllocResult(cachedReference, rbp, pbnv)
        ELSE IF ~Has(pbnv, key)                      \* !existingPath: a path is never ""
        THEN AllocResult(normalizedVersion, Put(rbp, realDir, normalizedVersion),
                         Put(pbnv, key, realDir))
        ELSE IF pbnv[key] = realDir
        THEN AllocResult(normalizedVersion, Put(rbp, realDir, normalizedVersion), pbnv)
        ELSE AllocResult(uniqueReference, Put(rbp, realDir, uniqueReference), pbnv)

AllocCall(name, version, realDir, reference) ==
    [name |-> name, version |-> version, realDir |-> realDir, reference |-> reference]

(***************************************************************************)
(* The file system, as far as the collector reads it.  Nothing is written  *)
(* to disk: what a probe or a manifest read observes is chosen when it is  *)
(* first made and stays as observed for the rest of the run.               *)
(***************************************************************************)
Absent   == <<"<absent>">>          \* fs.pathExists(candidate) is false
NullPath == <<"<null>">>            \* findInstalledDependency returns null

Unreadable == [readable |-> FALSE]

\* One entry of a manifest's dependencies / optionalDependencies object. The
\* entries of an object are a sequence: Object.keys keeps insertion order.
Dep(alias, range) == [alias |-> alias, range |-> range]

\* package.json: name and version may be missing (Undefined); a missing
\* dependencies / optionalDependencies object reads as {} (lines 27, 148, 149).
Manifest(name, version, dependencies, optionalDependencies) ==
    [readable |-> TRUE, name |-> name, version |-> version,
     dependencies |-> dependencies, optionalDependencies |-> optionalDependencies]

RootManifests ==
    { Manifest("app", "0.1.0", <<Dep("a", "^1.0.0"), Dep("b", "^1.0.0")>>, <<>>),
      Manifest(Undefined, Undefined, <<Dep("b", "*")>>, <<Dep("a", "")>>),
      Unreadable }

PackageManifests ==
    { Manifest("a", "1.0.0", <<>>, <<>>),
      Manifest("a", "1.0.0", <<Dep("b", "^1.0.0")>>, <<>>),
      Manifest("b", "1.0.0", <<Dep("a", "^1.0.0")>>, <<>>),
      Manifest("b", "2.0.0", <<Dep("b", "^2.0.0"), Dep("a", "*")>>, <<>>),
      Manifest(Undefined, Undefined, <<>>, <<Dep("b", "")>>),
      Unreadable }

ManifestChoices(dir) == IF dir = RootDir THEN RootManifests ELSE PackageManifests

\* What node_modules/<name> may be at each place: nothing, a directory, or a
\* link to a workspace package outside rootDir or to the project itself.
LinkChoices(candidate) ==
    CASE candidate = DirA  -> {Absent, DirA, WsDir}
      [] candidate = DirB  -> {Absent, DirB, WsDir, RootDir}
      [] candidate = DirAB -> {Absent, DirAB}
      [] candidate = DirBA -> {Absent, DirBA}
      [] OTHER             -> {Absent}

\* The outcomes a probe or read can have now: the one already observed, if any.
Observe(observed, k, choices) == IF k \in DOMAIN observed THEN {observed[k]} ELSE choices

\* resolvePath(installedPath) (base class): the real directory behind the path.
ResolvePath(installedPath) == fsLinks[installedPath]

(***************************************************************************)
(* Installed-Path Resolver: findInstalledDependency, lines 172-197         *)
(***************************************************************************)
ResolvedRoot == RootDir                          \* path.resolve(this.rootDir)

IdleFind == [status |-> "idle", startDir |-> FsRoot, dependencyName |-> "",
             currentDir |-> FsRoot, examined |-> <<>>, result |-> NullPath]

\* lines 173-174: the call starts at startDir.
StartFind(startDir, dependencyName) ==
    [status |-> "walk", startDir |-> startDir, dependencyName |-> dependencyName,
     currentDir |-> startDir, examined |-> <<>>, result |-> NullPath]

\* A plausible slip: the walk does not stop at the project root.
AfterMissPastRoot(currentDir) ==
    IF Dirname(currentDir) = currentDir
    THEN [status |-> "fallback", currentDir |-> currentDir]
    ELSE [status |-> "walk", currentDir |-> Dirname(currentDir)]

\* lines 181-188: where an iteration that found nothing goes next.
AfterMiss(currentDir) ==
    IF currentDir = ResolvedRoot
    THEN [status |-> "fallback", currentDir |-> currentDir]
    ELSE IF Dirname(currentDir) = currentDir
    THEN [status |-> "fallback", currentDir |-> currentDir]
    ELSE [status |-> "walk", currentDir |-> Dirname(currentDir)]

\* One iteration of the while (true) loop, lines 176-189.
FindStep ==
    /\ find.status = "walk"
    /\ LET candidate == Candidate(find.currentDir, find.dependencyName)
           examined  == Append(find.examined, find.currentDir)
       IN  \E target \in Observe(fsLinks, candidate, LinkChoices(candidate)) :
             /\ fsLinks' = Put(fsLinks, candidate, target)
             /\ find' = IF target # Absent
                        THEN [find EXCEPT !.status = "done", !.result = candidate,
                                          !.examined = examined]
                        ELSE [find EXCEPT !.status = AfterMiss(find.currentDir).status,
                                          !.currentDir = AfterMiss(find.currentDir).currentDir,
                                          !.examined = examined]
    /\ UNCHANGED <<pc, fsManifests, allocVars, stack, heap, tree,
                   dependencyCacheByPath, processingPaths, outVars, hist>>

\* The final check at the resolved root, lines 191-196.
FindFallback ==
    /\ find.status = "fallback"
    /\ LET rootCandidate == Candidate(ResolvedRoot, find.dependencyName)
       IN  \E target \in Observe(fsLinks, rootCandidate, LinkChoices(rootCandidate)) :
             /\ fsLinks' = Put(fsLinks, rootCandidate, target)
             /\ find' = [find EXCEPT !.status = "done",
                                     !.result = IF target # Absent THEN rootCandidate
                                                ELSE NullPath,
                                     !.examined = Append(find.examined, ResolvedRoot)]
    /\ UNCHANGED <<pc, fsManifests, allocVars, stack, heap, tree,
                   dependencyCacheByPath, processingPaths, outVars, hist>>

(***************************************************************************)
(* Dependency Node Builder: getDependenciesTree, resolveChildren,          *)
(* loadDependency                                                          *)
(***************************************************************************)
TreeId == <<".">>                   \* identity of the object getDependenciesTree returns
NoTree == <<"<none>">>

\* An optional child map of a node: undefined, or the alias -> node entries.
NoChildren == [present |-> FALSE, entries |-> <<>>]

\* A plausible slip: the map is stored without the length test.
ChildMapAlways(entries) == [present |-> TRUE, entries |-> entries]

\* Object.keys(m).length > 0 ? m : undefined, lines 35-36 and 160-161
ChildMap(entries) == IF Len(entries) > 0 THEN [present |-> TRUE, entries |-> entries]
                     ELSE NoChildren

Child(alias, node) == [alias |-> alias, node |-> node]

\* A frame of the call chain: getDependenciesTree (kind "root") or one
\* loadDependency (kind "dep") inside its resolveChildren loops; i counts the
\* aliases already handled, the required ones first (lines 106-118).
Frame(kind, dir, alias, manifest) ==
    [kind |-> kind, realDir |-> dir, alias |-> alias, manifest |-> manifest, i |-> 0,
     dependencies |-> <<>>, optionalDependencies |-> <<>>]

Declared(f) == f.manifest.dependencies \o f.manifest.optionalDependencies

HasNextAlias(f) == f.i < Len(Declared(f))

NextAlias(f) == Declared(f)[f.i + 1].alias

NextIsOptional(f) == f.i >= Len(f.manifest.dependencies)

\* A plausible slip: the result is stored without the if (dep) test.
ReturnedUnchecked(f, dep) ==
    IF NextIsOptional(f)
    THEN [f EXCEPT !.i = f.i + 1,
                   !.optionalDependencies = Append(f.optionalDependencies,
                                                   Child(NextAlias(f), dep))]
    ELSE [f EXCEPT !.i = f.i + 1,
                   !.dependencies = Append(f.dependencies, Child(NextAlias(f), dep))]

\* if (dep) { dependencies[alias] = dep }, lines 107-117; dep is a node or NullPath
Returned(f, dep) ==
    IF dep = NullPath THEN [f EXCEPT !.i = f.i + 1]
    ELSE IF NextIsOptional(f)
    THEN [f EXCEPT !.i = f.i + 1,
                   !.optionalDependencies = Append(f.optionalDependencies,
                                                   Child(NextAlias(f), dep))]
    ELSE [f EXCEPT !.i = f.i + 1,
                   !.dependencies = Append(f.dependencies, Child(NextAlias(f), dep))]

ReturnToCaller(stk, dep) ==
    [stk EXCEPT ![Len(stk)] = Returned(stk[Len(stk)], dep)]

Pop(stk) == SubSeq(stk, 1, Len(stk) - 1)

Top(stk) == stk[Len(stk)]

\* History: the running request of the top frame found realDir installed.
Resolved(realDir) == <<Top(stack).realDir, NextAlias(Top(stack)), realDir>>

\* getDependenciesTree, lines 24-27: read the root manifest; a failure throws.
GetDependenciesTree ==
    /\ pc = "start"
    /\ \E manifest \in Observe(fsManifests, RootDir, ManifestChoices(RootDir)) :
         /\ fsManifests' = Put(fsManifests, RootDir, manifest)
         /\ IF manifest.readable
            THEN /\ pc' = "build"
                 /\ stack' = <<Frame("root", RootDir, ".", manifest)>>
                 /\ hist' = [hist EXCEPT !.reads = Append(hist.reads, RootDir)]
            ELSE /\ pc' = "error"
                 /\ stack' = <<>>
                 /\ hist' = [hist EXCEPT !.failed = hist.failed \cup {RootDir}]
    /\ UNCHANGED <<fsLinks, allocVars, find, heap, tree, dependencyCacheByPath,
                   processingPaths, outVars>>

\* loadDependency(alias, requesterDir, isOptional), line 124: the next alias
\* of the running resolveChildren loop starts its search.
LoadDependency ==
    /\ pc = "build"
    /\ find.status = "idle"
    /\ HasNextAlias(Top(stack))
    /\ find' = StartFind(Top(stack).realDir, NextAlias(Top(stack)))
    /\ UNCHANGED <<pc, fsVars, allocVars, stack, heap, tree, dependencyCacheByPath,
                   processingPaths, outVars, hist>>

\* lines 125-130: nothing installed; return null.
LoadNotFound ==
    /\ pc = "build"
    /\ find.status = "done"
    /\ find.result = NullPath
    /\ find' = IdleFind
    /\ stack' = ReturnToCaller(stack, NullPath)
    /\ hist' = [hist EXCEPT !.notFound = hist.notFound \cup
                                {<<Top(stack).realDir, NextAlias(Top(stack))>>}]
    /\ UNCHANGED <<pc, fsVars, allocVars, heap, tree, dependencyCacheByPath,
                   processingPaths, outVars>>

\* lines 132-137: the real directory is cached; return the cached node.
LoadCached ==
    /\ pc = "build"
    /\ find.status = "done"
    /\ find.result # NullPath
    /\ LET realDir == ResolvePath(find.result)
       IN  /\ Has(dependencyCacheByPath, realDir)
           /\ stack' = ReturnToCaller(stack, dependencyCacheByPath[realDir])
           /\ hist' = [hist EXCEPT !.resolved = hist.resolved \cup {Resolved(realDir)}]
    /\ find' = IdleFind
    /\ UNCHANGED <<pc, fsVars, allocVars, heap, tree, dependencyCacheByPath,
                   processingPaths, outVars>>

\* A plausible slip: the cycle guard is missing.
IsProcessingNever(realDir) == FALSE

\* this.processingPaths.has(realDir), line 139
IsProcessing(realDir) == realDir \in processingPaths

MaxChain == 8                       \* deepest loadDependency call chain that is followed

\* A plausible slip: the object of the in-progress path is handed out before it is finished.
LoadInProgressHandsOut ==
    /\ pc = "build"
    /\ find.status = "done"
    /\ find.result # NullPath
    /\ LET realDir == ResolvePath(find.result)
       IN  /\ ~Has(dependencyCacheByPath, realDir)
           /\ IsProcessing(realDir)
           /\ stack' = ReturnToCaller(stack, realDir)
           /\ hist' = [hist EXCEPT !.guarded = hist.guarded \cup
                                       {<<Top(stack).realDir, realDir>>},
                                   !.resolved = hist.resolved \cup {Resolved(realDir)}]
    /\ find' = IdleFind
    /\ UNCHANGED <<pc, fsVars, allocVars, heap, tree, dependencyCacheByPath,
                   processingPaths, outVars>>

\* lines 139-141: the real directory is being resolved further up the call
\* chain; return dependencyCacheByPath.get(realDir) ?? null.
LoadInProgress ==
    /\ pc = "build"
    /\ find.status = "done"
    /\ find.result # NullPath
    /\ LET realDir == ResolvePath(find.result)
       IN  /\ ~Has(dependencyCacheByPath, realDir)
           /\ IsProcessing(realDir)
           /\ stack' = ReturnToCaller(stack, NullPath)
           /\ hist' = [hist EXCEPT !.guarded = hist.guarded \cup
                                       {<<Top(stack).realDir, realDir>>},
                                   !.resolved = hist.resolved \cup {Resolved(realDir)}]
    /\ find' = IdleFind
    /\ UNCHANGED <<pc, fsVars, allocVars, heap, tree, dependencyCacheByPath,
                   processingPaths, outVars>>

\* A plausible slip: the directory is not marked in-progress (line 143 missing).
LoadEnterUnmarked ==
    /\ pc = "build"
    /\ Len(stack) < MaxChain
    /\ find.status = "done"
    /\ find.result # NullPath
    /\ LET realDir == ResolvePath(find.result)
       IN  /\ ~Has(dependencyCacheByPath, realDir)
           /\ ~IsProcessing(realDir)
           /\ \E manifest \in Observe(fsManifests, realDir, ManifestChoices(realDir)) :
                /\ manifest.readable
                /\ fsManifests' = Put(fsManifests, realDir, manifest)
                /\ stack' = Append(stack, Frame("dep", realDir, NextAlias(Top(stack)),
                                                manifest))
           /\ processingPaths' = processingPaths
           /\ hist' = [hist EXCEPT !.reads = Append(hist.reads, realDir),
                                   !.started = Append(hist.started, realDir),
                                   !.resolved = hist.resolved \cup {Resolved(realDir)}]
    /\ find' = IdleFind
    /\ UNCHANGED <<pc, fsLinks, allocVars, heap, tree, dependencyCacheByPath, outVars>>

\* lines 143-150: mark the directory, read its manifest and enter its
\* resolveChildren.
LoadEnter ==
    /\ pc = "build"
    /\ Len(stack) < MaxChain
    /\ find.status = "done"
    /\ find.result # NullPath
    /\ LET realDir == ResolvePath(find.result)
       IN  /\ ~Has(dependencyCacheByPath, realDir)
           /\ ~IsProcessing(realDir)
           /\ \E manifest \in Observe(fsManifests, realDir, ManifestChoices(realDir)) :
                /\ manifest.readable
                /\ fsManifests' = Put(fsManifests, realDir, manifest)
                /\ stack' = Append(stack, Frame("dep", realDir, NextAlias(Top(stack)),
                                                manifest))
           /\ processingPaths' = processingPaths \cup {realDir}
           /\ hist' = [hist EXCEPT !.reads = Append(hist.reads, realDir),
                                   !.started = Append(hist.started, realDir),
                                   !.resolved = hist.resolved \cup {Resolved(realDir)}]
    /\ find' = IdleFind
    /\ UNCHANGED <<pc, fsLinks, allocVars, heap, tree, dependencyCacheByPath, outVars>>

\* A plausible slip: an unreadable manifest is treated like a missing package.
LoadManifestFailureSwallowed ==
    /\ pc = "build"
    /\ find.status = "done"
    /\ find.result # NullPath
    /\ LET realDir == ResolvePath(find.result)
       IN  /\ ~Has(dependencyCacheByPath, realDir)
           /\ ~IsProcessing(realDir)
           /\ \E manifest \in Observe(fsManifests, realDir, ManifestChoices(realDir)) :
                /\ ~manifest.readable
                /\ fsManifests' = Put(fsManifests, realDir, manifest)
           /\ hist' = [hist EXCEPT !.failed = hist.failed \cup {realDir},
                                   !.started = Append(hist.started, realDir),
                                   !.resolved = hist.resolved \cup {Resolved(realDir)}]
    /\ find' = IdleFind
    /\ stack' = ReturnToCaller(stack, NullPath)
    /\ UNCHANGED <<pc, fsLinks, allocVars, heap, tree, dependencyCacheByPath,
                   processingPaths, outVars>>

\* lines 143-146 and 167-169: the manifest cannot be read; readPackageJson
\* throws, the finally block unmarks the directory and the error propagates.
LoadManifestFailure ==
    /\ pc = "build"
    /\ find.status = "done"
    /\ find.result # NullPath
    /\ LET realDir == ResolvePath(find.result)
       IN  /\ ~Has(dependencyCacheByPath, realDir)
           /\ ~IsProcessing(realDir)
           /\ \E manifest \in Observe(fsManifests, realDir, ManifestChoices(realDir)) :
                /\ ~manifest.readable
                /\ fsManifests' = Put(fsManifests, realDir, manifest)
           /\ processingPaths' = (processingPaths \cup {realDir}) \ {realDir}
           /\ hist' = [hist EXCEPT !.failed = hist.failed \cup {realDir},
                                   !.started = Append(hist.started, realDir),
                                   !.resolved = hist.resolved \cup {Resolved(realDir)}]
    /\ find' = IdleFind
    /\ pc' = "unwind"
    /\ UNCHANGED <<fsLinks, allocVars, stack, heap, tree, dependencyCacheByPath, outVars>>

\* A plausible slip: the path is unmarked after the try block instead of in a finally block.
UnwindKeepsMark ==
    /\ pc = "unwind"
    /\ IF Top(stack).kind = "dep"
       THEN /\ processingPaths' = processingPaths
            /\ pc' = "unwind"
       ELSE /\ processingPaths' = processingPaths
            /\ pc' = "error"
    /\ stack' = Pop(stack)
    /\ UNCHANGED <<fsVars, allocVars, find, heap, tree, dependencyCacheByPath,
                   outVars, hist>>

\* The error leaves one more call of the chain: a loadDependency runs its
\* finally block (lines 167-169); getDependenciesTree rejects.
Unwind ==
    /\ pc = "unwind"
    /\ IF Top(stack).kind = "dep"
       THEN /\ processingPaths' = processingPaths \ {Top(stack).realDir}
            /\ pc' = "unwind"
       ELSE /\ processingPaths' = processingPaths
            /\ pc' = "error"
    /\ stack' = Pop(stack)
    /\ UNCHANGED <<fsVars, allocVars, find, heap, tree, dependencyCacheByPath,
                   outVars, hist>>

\* A BunDependency object, lines 28-37 and 153-162.
Node(name, version, reference, dir, manifest, f) ==
    [name |-> name, version |-> version, reference |-> reference, path |-> dir,
     manifestDependencies |-> manifest.dependencies,
     manifestOptionalDependencies |-> manifest.optionalDependencies,
     dependencies |-> ChildMap(f.dependencies),
     optionalDependencies |-> ChildMap(f.optionalDependencies)]

\* A plausible slip: the finished node is not stored in the path cache (line 164 missing).
LoadFinishUncached ==
    /\ pc = "build"
    /\ find.status = "idle"
    /\ Top(stack).kind = "dep"
    /\ ~HasNextAlias(Top(stack))
    /\ LET f           == Top(stack)
           realDir     == f.realDir
           packageName == Coalesce(f.manifest.name, f.alias)
           alloc       == CreateReference(packageName, f.manifest.version, realDir,
                                          referenceByPath, pathByNameVersion)
           dependency  == Node(packageName, Coalesce(f.manifest.version, "0.0.0"),
                               alloc.reference, realDir, f.manifest, f)
       IN  /\ referenceByPath' = alloc.referenceByPath
           /\ pathByNameVersion' = alloc.pathByNameVersion
           /\ allocLog' = Append(allocLog, AllocCall(packageName, f.manifest.version,
                                                     realDir, alloc.reference))
           /\ heap' = Put(heap, realDir, dependency)
           /\ dependencyCacheByPath' = dependencyCacheByPath
           /\ processingPaths' = processingPaths \ {realDir}
           /\ stack' = ReturnToCaller(Pop(stack), realDir)
    /\ UNCHANGED <<pc, fsVars, find, tree, outVars, hist>>

\* lines 147 and 151-169: the children are resolved; allocate the reference,
\* build and cache the node, unmark the directory and return the node.
LoadFinish ==
    /\ pc = "build"
    /\ find.status = "idle"
    /\ Top(stack).kind = "dep"
    /\ ~HasNextAlias(Top(stack))
    /\ LET f           == Top(stack)
           realDir     == f.realDir
           packageName == Coalesce(f.manifest.name, f.alias)
           alloc       == CreateReference(packageName, f.manifest.version, realDir,
                                          referenceByPath, pathByNameVersion)
           dependency  == Node(packageName, Coalesce(f.manifest.version, "0.0.0"),
                               alloc.reference, realDir, f.manifest, f)
       IN  /\ referenceByPath' = alloc.referenceByPath
           /\ pathByNameVersion' = alloc.pathByNameVersion
           /\ allocLog' = Append(allocLog, AllocCall(packageName, f.manifest.version,
                                                     realDir, alloc.reference))
           /\ heap' = Put(heap, realDir, dependency)
           /\ dependencyCacheByPath' = Put(dependencyCacheByPath, realDir, realDir)
           /\ processingPaths' = processingPaths \ {realDir}
           /\ stack' = ReturnToCaller(Pop(stack), realDir)
    /\ UNCHANGED <<pc, fsVars, find, tree, outVars, hist>>

\* getDependenciesTree, lines 28-37: the root's children are resolved; return
\* the root node.
TreeFinish ==
    /\ pc = "build"
    /\ find.status = "idle"
    /\ Top(stack).kind = "root"
    /\ ~HasNextAlias(Top(stack))
    /\ LET f == Top(stack)
       IN  heap' = Put(heap, TreeId,
                       Node(Coalesce(f.manifest.name, "."),
                            Coalesce(f.manifest.version, "0.0.0"), ".", RootDir,
                            f.manifest, f))
    /\ tree' = TreeId
    /\ stack' = <<>>
    /\ pc' = "built"
    /\ UNCHANGED <<fsVars, allocVars, find, dependencyCacheByPath, processingPaths,
                   outVars, hist>>

(***************************************************************************)
(* Transitive Collector: collectAllDependencies, lines 44-62               *)
(***************************************************************************)
\* `${dependency.name}@${dependency.reference}`, lines 47, 56 and 79
NodeKey(node) == node.name \o "@" \o node.reference

\* Object.values(tree.dependencies || {}), then those of optionalDependencies
Children(node) == node.dependencies.entries \o node.optionalDependencies.entries

\* The base class hands the returned tree to collectAllDependencies.
CollectAllDependencies ==
    /\ pc = "built"
    /\ pc' = "collect"
    /\ cstack' = <<[node |-> tree, i |-> 0]>>
    /\ UNCHANGED <<fsVars, allocVars, buildVars, allDependencies, productionGraph,
                   estack, hist>>

\* A plausible slip: the map-presence check is dropped.
CollectInsertsAlways(key) == TRUE

\* A plausible slip: the map-presence test is inverted.
CollectInsertsInverted(key) == Has(allDependencies, key)

\* if (!this.allDependencies.has(key)), lines 48 and 57
CollectInserts(key) == ~Has(allDependencies, key)

\* One iteration of a for loop of lines 46-61: insert the child and descend
\* into it, or skip it.
CollectStep ==
    /\ pc = "collect"
    /\ Top(cstack).i < Len(Children(heap[Top(cstack).node]))
    /\ LET f          == Top(cstack)
           dependency == Children(heap[f.node])[f.i + 1].node
           key        == NodeKey(heap[dependency])
           advanced   == [cstack EXCEPT ![Len(cstack)].i = f.i + 1]
       IN  IF CollectInserts(key)
           THEN /\ allDependencies' = Put(allDependencies, key, dependency)
                /\ cstack' = Append(advanced, [node |-> dependency, i |-> 0])
                /\ hist' = [hist EXCEPT !.inserted = Append(hist.inserted, key)]
           ELSE /\ allDependencies' = allDependencies
                /\ cstack' = advanced
                /\ hist' = hist
    /\ UNCHANGED <<pc, fsVars, allocVars, buildVars, productionGraph, estack>>

\* Both loops of one call are over: it returns.
CollectReturn ==
    /\ pc = "collect"
    /\ Top(cstack).i = Len(Children(heap[Top(cstack).node]))
    /\ cstack' = Pop(cstack)
    /\ pc' = IF Len(cstack) = 1 THEN "collected" ELSE "collect"
    /\ UNCHANGED <<fsVars, allocVars, buildVars, allDependencies, productionGraph,
                   estack, hist>>

(***************************************************************************)
(* Production Graph Extractor: extractProductionDependencyGraph, 64-89     *)
(***************************************************************************)
RootId == "."                       \* the dependencyId the base class passes for the tree

MaxStack == 8                       \* deepest call chain of the extractor that is followed

\* manifest[alias]: the version range, or undefined
ManifestGet(manifest, alias) ==
    IF \E j \in 1..Len(manifest) : manifest[j].alias = alias
    THEN manifest[CHOOSE j \in 1..Len(manifest) : manifest[j].alias = alias].range
    ELSE Undefined

ExtractFrame(node, dependencyId) ==
    [node |-> node, dependencyId |-> dependencyId, i |-> 0, dependencies |-> <<>>]

\* The base class hands the tree to extractProductionDependencyGraph; lines 65-67.
ExtractProductionDependencyGraph ==
    /\ pc = "collected"
    /\ IF Has(productionGraph, RootId)
       THEN pc' = "extracted" /\ estack' = <<>>
       ELSE pc' = "extract" /\ estack' = <<ExtractFrame(tree, RootId)>>
    /\ UNCHANGED <<fsVars, allocVars, buildVars, allDependencies, productionGraph,
                   cstack, hist>>

\* The child the loops of appendChildren (lines 85-86) handle next, with the
\* manifest map its alias is looked up in.
ExtractNext(f) ==
    LET node == heap[f.node]
        n    == Len(node.dependencies.entries)
    IN  IF f.i < n
        THEN [child |-> node.dependencies.entries[f.i + 1],
              manifest |-> node.manifestDependencies, optional |-> FALSE]
        ELSE [child |-> node.optionalDependencies.entries[f.i + 1 - n],
              manifest |-> node.manifestOptionalDependencies, optional |-> TRUE]

\* A plausible slip: every resolved child is taken for a production edge.
IsProductionEdgeUnfiltered(manifest, alias) == TRUE

\* if (!manifest[alias]) continue, lines 76-78
IsProductionEdge(manifest, alias) == Truthy(ManifestGet(manifest, alias))

\* A plausible slip: the edge is pushed but the child is not recursed into (line 81 missing).
ExtractStepNoRecursion ==
    /\ pc = "extract"
    /\ Len(estack) < MaxStack
    /\ Top(estack).i < Len(Children(heap[Top(estack).node]))
    /\ LET f       == Top(estack)
           next    == ExtractNext(f)
           dep     == next.child.node
           childId == NodeKey(heap[dep])
           skipped == [estack EXCEPT ![Len(estack)].i = f.i + 1]
           pushed  == [skipped EXCEPT ![Len(estack)].dependencies =
                                          Append(f.dependencies, childId)]
       IN  IF ~IsProductionEdge(next.manifest, next.child.alias)
           THEN /\ estack' = skipped
                /\ hist' = hist
           ELSE /\ estack' = pushed
                /\ hist' = [hist EXCEPT !.edges = hist.edges \cup
                               {[node |-> f.node, optional |-> next.optional,
                                 alias |-> next.child.alias, childId |-> childId,
                                 entered |-> ~Has(productionGraph, childId)]}]
    /\ UNCHANGED <<pc, fsVars, allocVars, buildVars, allDependencies, productionGraph,
                   cstack>>

\* One iteration of the loop of lines 75-82: skip the alias, or push the
\* child's id and call extractProductionDependencyGraph on the child, which
\* returns at once when the id has an entry (lines 65-67).
ExtractStep ==
    /\ pc = "extract"
    /\ Len(estack) < MaxStack
    /\ Top(estack).i < Len(Children(heap[Top(estack).node]))
    /\ LET f       == Top(estack)
           next    == ExtractNext(f)
           dep     == next.child.node
           childId == NodeKey(heap[dep])
           skipped == [estack EXCEPT ![Len(estack)].i = f.i + 1]
           pushed  == [skipped EXCEPT ![Len(estack)].dependencies =
                                          Append(f.dependencies, childId)]
       IN  IF ~IsProductionEdge(next.manifest, next.child.alias)
           THEN /\ estack' = skipped
                /\ hist' = hist
           ELSE /\ estack' = IF Has(productionGraph, childId) THEN pushed
                             ELSE Append(pushed, ExtractFrame(dep, childId))
                /\ hist' = [hist EXCEPT !.edges = hist.edges \cup
                               {[node |-> f.node, optional |-> next.optional,
                                 alias |-> next.child.alias, childId |-> childId,
                                 entered |-> ~Has(productionGraph, childId)]}]
    /\ UNCHANGED <<pc, fsVars, allocVars, buildVars, allDependencies, productionGraph,
                   cstack>>

\* line 88: both lists are done; store the edge list under the id and return.
ExtractReturn ==
    /\ pc = "extract"
    /\ Top(estack).i = Len(Children(heap[Top(estack).node]))
    /\ productionGraph' = Put(productionGraph, Top(estack).dependencyId,
                              [dependencies |-> Top(estack).dependencies])
    /\ estack' = Pop(estack)
    /\ pc' = IF Len(estack) = 1 THEN "extracted" ELSE "extract"
    /\ hist' = [hist EXCEPT !.stored = Append(hist.stored, Top(estack).dependencyId)]
    /\ UNCHANGED <<fsVars, allocVars, buildVars, allDependencies, cstack>>

(***************************************************************************)
(* A collection run: getDependenciesTree, then collectAllDependencies and  *)
(* extractProductionDependencyGraph on the tree it returned                *)
(***************************************************************************)
NoHistory == [reads |-> <<>>, started |-> <<>>, failed |-> {}, notFound |-> {},
              resolved |-> {}, guarded |-> {}, inserted |-> <<>>, edges |-> {},
              stored |-> <<>>]

\* The state of a new collector, lines 18-21, before anything is read.
Fresh ==
    /\ fsLinks = EmptyMap
    /\ fsManifests = EmptyMap
    /\ find = IdleFind
    /\ stack = <<>>
    /\ heap = EmptyMap
    /\ tree = NoTree
    /\ dependencyCacheByPath = EmptyMap
    /\ processingPaths = {}
    /\ referenceByPath = EmptyMap
    /\ pathByNameVersion = EmptyMap
    /\ allDependencies = EmptyMap
    /\ productionGraph = EmptyMap
    /\ cstack = <<>>
    /\ estack = <<>>
    /\ allocLog = <<>>
    /\ hist = NoHistory

Init == pc = "start" /\ Fresh

Build ==
    \/ GetDependenciesTree
    \/ LoadDependency
    \/ FindStep
    \/ FindFallback
    \/ LoadNotFound
    \/ LoadCached
    \/ LoadInProgress
    \/ LoadEnter
    \/ LoadManifestFailure
    \/ LoadFinish
    \/ TreeFinish
    \/ Unwind

Next ==
    \/ Build
    \/ CollectAllDependencies
    \/ CollectStep
    \/ CollectReturn
    \/ ExtractProductionDependencyGraph
    \/ ExtractStep
    \/ ExtractReturn

Spec == Init /\ [][Next]_vars

(***************************************************************************)
(* The Reference Allocator on its own                                      *)
(***************************************************************************)
MaxCalls == 3                       \* createReference calls followed in the allocator runs

AllocDirs     == {DirA, DirB, DirBA}
AllocNames    == {"a", "b"}
AllocVersions == {Undefined, "", "0.0.0", "1.0.0"}    \* manifest.version: any string, or missing

\* createReference(name, version, realDir) with any arguments.
Allocate ==
    /\ pc = "alloc"
    /\ Len(allocLog) < MaxCalls
    /\ \E name \in AllocNames, version \in AllocVersions, realDir \in AllocDirs :
         LET alloc == CreateReference(name, version, realDir, referenceByPath,
                                      pathByNameVersion)
         IN  /\ referenceByPath' = alloc.referenceByPath
             /\ pathByNameVersion' = alloc.pathByNameVersion
             /\ allocLog' = Append(allocLog,
                                   AllocCall(name, version, realDir, alloc.reference))
    /\ UNCHANGED <<pc, fsVars, buildVars, outVars, hist>>

InitAlloc == pc = "alloc" /\ Fresh

SpecAlloc == InitAlloc /\ [][Allocate]_vars

\* createReference as loadDependency calls it (lines 147 and 151) for an
\* installed package: with the name and the version of the manifest at realDir.
AllocateInstalled ==
    /\ pc = "installed"
    /\ Len(allocLog) < MaxCalls
    /\ \E realDir \in DOMAIN fsManifests :
         LET manifest == fsManifests[realDir]
             alloc    == CreateReference(manifest.name, manifest.version, realDir,
                                         referenceByPath, pathByNameVersion)
         IN  /\ referenceByPath' = alloc.referenceByPath
             /\ pathByNameVersion' = alloc.pathByNameVersion
             /\ allocLog' = Append(allocLog, AllocCall(manifest.name, manifest.version,
                                                       realDir, alloc.reference))
    /\ UNCHANGED <<pc, fsVars, buildVars, outVars, hist>>

\* Every installation directory holds a package with a name and a version.
InitInstalled ==
    /\ pc = "installed"
    /\ fsLinks = EmptyMap
    /\ fsManifests \in [AllocDirs -> {Manifest(n, v, <<>>, <<>>) :
                                         n \in AllocNames, v \in AllocVersions}]
    /\ find = IdleFind
    /\ stack = <<>>
    /\ heap = EmptyMap
    /\ tree = NoTree
    /\ dependencyCacheByPath = EmptyMap
    /\ processingPaths = {}
    /\ referenceByPath = EmptyMap
    /\ pathByNameVersion = EmptyMap
    /\ allDependencies = EmptyMap
    /\ productionGraph = EmptyMap
    /\ cstack = <<>>
    /\ estack = <<>>
    /\ allocLog = <<>>
    /\ hist = NoHistory

SpecInstalled == InitInstalled /\ [][AllocateInstalled]_vars

\* The reference the first createReference call for realDir returned.
FirstReference(log, realDir) ==
    log[CHOOSE i \in 1..Len(log) :
          /\ log[i].realDir = realDir
          /\ \A j \in 1..(i - 1) : log[j].realDir # realDir].reference

\* The name and the version (as the node carries it: "0.0.0" when the manifest
\* has none) of the package installed at dir.
PackageName(dir) == fsManifests[dir].name

PackageVersion(dir) == Coalesce(fsManifests[dir].version, "0.0.0")

SameNameVersion(p, q) ==
    PackageName(p) = PackageName(q) /\ PackageVersion(p) = PackageVersion(q)

\* The directory of the first createReference call made for this name@version.
FirstClaimant(log, name, version) ==
    log[CHOOSE i \in 1..Len(log) :
          /\ log[i].name = name /\ Coalesce(log[i].version, "0.0.0") = version
          /\ \A j \in 1..(i - 1) :
               ~(log[j].name = name /\ Coalesce(log[j].version, "0.0.0") = version)
       ].realDir

IsFirstClaimant(dir) == FirstClaimant(allocLog, PackageName(dir), PackageVersion(dir)) = dir

HasDigestSuffix(dir) ==
    referenceByPath[dir] = PackageVersion(dir) \o "+" \o Digest(dir)

(* C1: idempotent allocation per real path.  A createReference call for a   *)
(* real path that already has a reference returns the reference the first  *)
(* call for that path returned, whatever name and version it is given, and  *)
(* leaves referenceByPath and pathByNameVersion as they were.               *)
C1_IdempotentPerPath ==
    [][ (/\ Len(allocLog') = Len(allocLog) + 1
         /\ Has(referenceByPath, Last(allocLog').realDir))
        => (/\ Last(allocLog').reference =
                   FirstReference(allocLog, Last(allocLog').realDir)
            /\ referenceByPath' = referenceByPath
            /\ pathByNameVersion' = pathByNameVersion) ]_vars

(* C2: disambiguation.  Two distinct real paths whose packages have the     *)
(* same name and the same version never have the same reference: the path   *)
(* that claimed name@version first has the plain version, every other one   *)
(* has version + "+" + the 8-character digest of its own path.              *)
C2_Disambiguation ==
    \A p \in DOMAIN referenceByPath, q \in DOMAIN referenceByPath :
        (p # q /\ SameNameVersion(p, q)) =>
            /\ referenceByPath[p] # referenceByPath[q]
            /\ \A x \in {p, q} :
                 /\ Len(Digest(x)) = 8
                 /\ IF IsFirstClaimant(x)
                    THEN referenceByPath[x] = PackageVersion(x)
                    ELSE HasDigestSuffix(x)

C2_Witness ==
    \E p \in DOMAIN referenceByPath, q \in DOMAIN referenceByPath :
        /\ p # q /\ SameNameVersion(p, q)
        /\ IsFirstClaimant(p) /\ ~IsFirstClaimant(q)
        /\ Len(allocLog) = MaxCalls

SameNameOtherVersion(p, q) ==
    PackageName(p) = PackageName(q) /\ PackageVersion(p) # PackageVersion(q)

(* C3, as claimed: two real paths whose packages have the same name but     *)
(* different versions have different references, and neither reference      *)
(* carries a "+<digest>" suffix.                                            *)
C3_NoCollisionNoSuffix ==
    \A p \in DOMAIN referenceByPath, q \in DOMAIN referenceByPath :
        (p # q /\ SameNameOtherVersion(p, q)) =>
            /\ referenceByPath[p] # referenceByPath[q]
            /\ referenceByPath[p] = PackageVersion(p)
            /\ referenceByPath[q] = PackageVersion(q)

(* C3, amended: two real paths whose packages have the same name but        *)
(* different versions have different references (no version being itself of *)
(* the form v+digest), and a path of the pair carries the "+<digest>"       *)
(* suffix exactly when a third path claimed its own name@version before it; *)
(* otherwise its reference is its plain version.                            *)
C3_NoCollisionAmended ==
    \A p \in DOMAIN referenceByPath, q \in DOMAIN referenceByPath :
        (p # q /\ SameNameOtherVersion(p, q)) =>
            /\ referenceByPath[p] # referenceByPath[q]
            /\ \A x \in {p, q} :
                 IF IsFirstClaimant(x)
                 THEN referenceByPath[x] = PackageVersion(x)
                 ELSE HasDigestSuffix(x)

C3_Witness ==
    \E p \in DOMAIN referenceByPath, q \in DOMAIN referenceByPath :
        /\ p # q /\ SameNameOtherVersion(p, q)
        /\ IsFirstClaimant(p) /\ IsFirstClaimant(q)
        /\ referenceByPath[p] = PackageVersion(p)
        /\ referenceByPath[q] = PackageVersion(q)

(***************************************************************************)
(* Properties of a collection run                                          *)
(***************************************************************************)
FairSpec == Spec /\ WF_vars(Next)

Dirs == {RootDir, WsDir, DirA, DirB, DirAB, DirBA}

IsPrefix(a, b) == Len(a) <= Len(b) /\ SubSeq(b, 1, Len(a)) = a

\* Installed directly in rootDir/node_modules, or in a deeper node_modules.
Hoisted(dir) == IsPrefix(RootDir, dir) /\ Len(dir) = Len(RootDir) + 2

Nested(dir) == IsPrefix(RootDir, dir) /\ Len(dir) > Len(RootDir) + 2

Position(seq, x) == CHOOSE i \in 1..Len(seq) : seq[i] = x

\* loadDependency marked p (line 143) before it marked q.
StartedBefore(p, q) == Position(hist.started, p) < Position(hist.started, q)

Allocated == {allocLog[i].realDir : i \in 1..Len(allocLog)}

AllocPosition(dir) == CHOOSE i \in 1..Len(allocLog) : allocLog[i].realDir = dir

\* createReference was called for p before it was called for q.
AllocatedBefore(p, q) == AllocPosition(p) < AllocPosition(q)

\* Two installations of one name and version, one hoisted and one nested,
\* both built.
SamePackageTwice(p, q) ==
    /\ p # q
    /\ heap[p].name = heap[q].name /\ heap[p].version = heap[q].version
    /\ (Hoisted(p) /\ Nested(q)) \/ (Nested(p) /\ Hoisted(q))

FirstOfKey(dir) == FirstClaimant(allocLog, heap[dir].name, heap[dir].version)

(* C4, as claimed: of two installations of the same name and version, one   *)
(* hoisted and one nested, the one whose loadDependency starts first gets   *)
(* the plain version as reference and the other gets version+digest.        *)
C4_FirstStartedPlain ==
    \A p \in Allocated, q \in Allocated :
        (SamePackageTwice(p, q) /\ StartedBefore(p, q)) =>
            /\ referenceByPath[p] = heap[p].version
            /\ referenceByPath[q] = heap[q].version \o "+" \o Digest(q)

(* C4, amended: of two installations of the same name and version, one      *)
(* hoisted and one nested, the one whose createReference call is made first *)
(* (loadDependency allocates after resolving the children, so this is the   *)
(* one whose loadDependency finishes first) gets the plain version, unless  *)
(* a third path claimed the name@version before it, and the other gets      *)
(* version+digest of its own path.                                          *)
C4_FirstAllocatedPlain ==
    \A p \in Allocated, q \in Allocated :
        (SamePackageTwice(p, q) /\ AllocatedBefore(p, q)) =>
            /\ FirstOfKey(p) = p => referenceByPath[p] = heap[p].version
            /\ FirstOfKey(p) # p =>
                   referenceByPath[p] = heap[p].version \o "+" \o Digest(p)
            /\ referenceByPath[q] = heap[q].version \o "+" \o Digest(q)

\* The nested copy is met inside the hoisted one's own resolution.
C4_Witness ==
    \E p \in Allocated, q \in Allocated :
        /\ SamePackageTwice(p, q)
        /\ StartedBefore(q, p) /\ AllocatedBefore(p, q)
        /\ referenceByPath[p] = heap[p].version
        /\ pc = "built"

\* The nodes reachable from a set of nodes through dependencies and
\* optionalDependencies, the set included.
RECURSIVE Descendants(_, _)
Descendants(nodes, n) ==
    IF n = 0 THEN nodes
    ELSE Descendants(nodes \cup {c.node : c \in UNION {Range(Children(heap[x])) :
                                                         x \in nodes}}, n - 1)

ReachableNodes == Descendants({tree}, Cardinality(DOMAIN heap))

\* The installation graph, as resolved: requester directory -> real directory.
RECURSIVE Required(_, _)
Required(dirs, n) ==
    IF n = 0 THEN dirs
    ELSE Required(dirs \cup {e[3] : e \in {r \in hist.resolved : r[1] \in dirs}}, n - 1)

RequiredBy(dir) == Required({e[3] : e \in {r \in hist.resolved : r[1] = dir}},
                            Cardinality(Dirs))

OnCycle(dir) == dir \in RequiredBy(dir)

EntriesOf(node) == {k \in DOMAIN allDependencies : allDependencies[k] = node}

Collected == pc \in {"collected", "extract", "extracted"}

\* No directory is entered twice on one call chain.
ChainDistinct ==
    \A i \in 1..Len(stack), j \in 1..Len(stack) :
        (i < j /\ stack[i].kind = "dep") => stack[i].realDir # stack[j].realDir

(* C5: cycle termination.  Whatever the installation graph, cycles          *)
(* included, the recursion of loadDependency enters no directory twice on   *)
(* one call chain, the run of getDependenciesTree and                       *)
(* collectAllDependencies ends (collected, or a manifest error), and after  *)
(* the collection every package on a dependency cycle has exactly one       *)
(* entry in the Transitive Map.                                             *)
C5_CycleTermination ==
    /\ [](ChainDistinct /\ Len(stack) <= Cardinality(Dirs) + 1)
    /\ [](Collected =>
            \A dir \in DOMAIN dependencyCacheByPath :
                OnCycle(dir) => Cardinality(EntriesOf(dependencyCacheByPath[dir])) = 1)
    /\ <>(pc \in {"collected", "error"})

\* A requires B and B requires A: both are in the Transitive Map.
C5_Witness ==
    /\ pc = "collected"
    /\ \E p \in DOMAIN dependencyCacheByPath, q \in DOMAIN dependencyCacheByPath :
         /\ p # q
         /\ p \in RequiredBy(q) /\ q \in RequiredBy(p)
         /\ <<q, p>> \in hist.guarded
         /\ Cardinality(EntriesOf(dependencyCacheByPath[p])) = 1
         /\ Cardinality(EntriesOf(dependencyCacheByPath[q])) = 1

Occurrences(seq, x) == Cardinality({i \in 1..Len(seq) : seq[i] = x})

(* C6: Transitive Map deduplication.  After collectAllDependencies on a     *)
(* built tree every node reachable from the root (the root object itself    *)
(* apart) is the entry of its name@reference key and of no other key, each  *)
(* key was inserted once, and an entry, once set, never changes.            *)
C6_TransitiveDedup ==
    /\ [](Collected =>
            \A node \in ReachableNodes \ {tree} :
                /\ Has(allDependencies, NodeKey(heap[node]))
                /\ EntriesOf(node) = {NodeKey(heap[node])})
    /\ [](\A k \in DOMAIN allDependencies : Occurrences(hist.inserted, k) = 1)
    /\ [][\A k \in DOMAIN allDependencies :
              Has(allDependencies', k) /\ allDependencies'[k] = allDependencies[k]]_vars

\* A diamond: one installation is the child of two nodes.
C6_Witness ==
    /\ pc = "collected"
    /\ \E node \in ReachableNodes \ {tree} :
         /\ Cardinality({x \in ReachableNodes :
                           \E c \in Range(Children(heap[x])) : c.node = node}) >= 2
         /\ EntriesOf(node) = {NodeKey(heap[node])}

(***************************************************************************)
(* The collector and the extractor on any node structure                   *)
(***************************************************************************)
N1 == <<"n1">>
N2 == <<"n2">>

\* A BunDependency object (lines 9-13) with the given manifest maps and child maps.
ArenaNode(name, manifestDeps, manifestOptionalDeps, deps, optionalDeps) ==
    [name |-> name, version |-> "1.0.0", reference |-> "1.0.0", path |-> RootDir,
     manifestDependencies |-> manifestDeps,
     manifestOptionalDependencies |-> manifestOptionalDeps,
     dependencies |-> ChildMap(deps),
     optionalDependencies |-> ChildMap(optionalDeps)]

\* Node structures of three objects: the child maps and the manifest maps of
\* a node are chosen independently, and a node may be reachable from itself.
Arenas ==
    { (TreeId :> ArenaNode("app", md0, mo0, d0, o0))
        @@ (N1 :> ArenaNode("a", md1, <<>>, d1, <<>>))
        @@ (N2 :> ArenaNode("b", md2, <<>>, d2, <<>>)) :
      md0 \in {<<>>, <<Dep("a", "^1.0.0")>>, <<Dep("a", "")>>,
               <<Dep("a", "^1.0.0"), Dep("b", "*")>>},
      mo0 \in {<<>>, <<Dep("b", "*")>>},
      d0  \in {<<>>, <<Child("a", N1)>>, <<Child("b", N2)>>,
               <<Child("a", N1), Child("b", N2)>>},
      o0  \in {<<>>, <<Child("b", N2)>>, <<Child("a", N1)>>},
      md1 \in {<<>>, <<Dep("b", "^1.0.0")>>},
      d1  \in {<<>>, <<Child("b", N2)>>},
      md2 \in {<<>>, <<Dep("a", "^1.0.0")>>},
      d2  \in {<<>>, <<Child("a", N1)>>} }

InitExtract ==
    /\ pc = "built"
    /\ heap \in Arenas
    /\ tree = TreeId
    /\ fsLinks = EmptyMap
    /\ fsManifests = EmptyMap
    /\ find = IdleFind
    /\ stack = <<>>
    /\ dependencyCacheByPath = EmptyMap
    /\ processingPaths = {}
    /\ referenceByPath = EmptyMap
    /\ pathByNameVersion = EmptyMap
    /\ allDependencies = EmptyMap
    /\ productionGraph = EmptyMap
    /\ cstack = <<>>
    /\ estack = <<>>
    /\ allocLog = <<>>
    /\ hist = NoHistory

NextExtract ==
    \/ CollectAllDependencies
    \/ CollectStep
    \/ CollectReturn
    \/ ExtractProductionDependencyGraph
    \/ ExtractStep
    \/ ExtractReturn

SpecExtract == InitExtract /\ [][NextExtract]_vars

HasKey(manifest, alias) == \E j \in 1..Len(manifest) : manifest[j].alias = alias

\* The node extractProductionDependencyGraph was called on with this id.
NodeOfId(id) ==
    IF id = RootId THEN tree
    ELSE CHOOSE n \in DOMAIN heap \ {tree} : NodeKey(heap[n]) = id

\* The entries of a node's child maps whose alias its own manifest map lists.
DeclaredChildren(node) ==
    {<<"dependencies", c.alias>> :
        c \in {x \in Range(node.dependencies.entries) :
                 HasKey(node.manifestDependencies, x.alias)}}
    \cup {<<"optionalDependencies", c.alias>> :
        c \in {x \in Range(node.optionalDependencies.entries) :
                 HasKey(node.manifestOptionalDependencies, x.alias)}}

AllChildren(node) ==
    {<<"dependencies", c.alias>> : c \in Range(node.dependencies.entries)}
    \cup {<<"optionalDependencies", c.alias>> :
             c \in Range(node.optionalDependencies.entries)}

(* C7: production filtering.  Whatever node the extractor is given, an      *)
(* alias of its dependencies (optionalDependencies) map that is not a key   *)
(* of its own manifestDependencies (manifestOptionalDependencies) gets no   *)
(* edge and no recursive call: every edge pushed and every call made is for *)
(* an alias the node's corresponding manifest map lists, and a stored edge  *)
(* list has at most one edge per listed alias.                              *)
C7_ProductionFiltering ==
    /\ \A e \in hist.edges :
         HasKey(IF e.optional THEN heap[e.node].manifestOptionalDependencies
                ELSE heap[e.node].manifestDependencies, e.alias)
    /\ \A id \in DOMAIN productionGraph :
         Len(productionGraph[id].dependencies)
             <= Cardinality(DeclaredChildren(heap[NodeOfId(id)]))

\* A node with a resolved child its manifest does not list was processed.
C7_Witness ==
    /\ pc = "extracted"
    /\ \E id \in DOMAIN productionGraph :
         LET node == heap[NodeOfId(id)]
         IN  /\ DeclaredChildren(node) # AllChildren(node)
             /\ DeclaredChildren(node) # {}
             /\ Len(productionGraph[id].dependencies)
                    = Cardinality(DeclaredChildren(node))

(***************************************************************************)
(* The Installed-Path Resolver on any requester directory and file system  *)
(***************************************************************************)
DirScoped == <<"p", "node_modules", "@s", "a">>      \* three levels below rootDir

FindDirs == {FsRoot, WsDir, RootDir, DirA, DirScoped, DirAB}

RECURSIVE Ancestors(_)
Ancestors(dir) == IF dir = FsRoot THEN {dir} ELSE {dir} \cup Ancestors(Dirname(dir))

ChainDirs == UNION {Ancestors(dir) : dir \in FindDirs}

InitFind ==
    /\ pc = "find"
    /\ \E startDir \in FindDirs, dependencyName \in {"a", "b"},
          installed \in SUBSET ChainDirs :
         /\ find = StartFind(startDir, dependencyName)
         /\ fsLinks = [c \in {Candidate(d, dependencyName) : d \in ChainDirs} |->
                          IF Dirname(Dirname(c)) \in installed THEN c ELSE Absent]
    /\ fsManifests = EmptyMap
    /\ stack = <<>>
    /\ heap = EmptyMap
    /\ tree = NoTree
    /\ dependencyCacheByPath = EmptyMap
    /\ processingPaths = {}
    /\ referenceByPath = EmptyMap
    /\ pathByNameVersion = EmptyMap
    /\ allDependencies = EmptyMap
    /\ productionGraph = EmptyMap
    /\ cstack = <<>>
    /\ estack = <<>>
    /\ allocLog = <<>>
    /\ hist = NoHistory

NextFind ==
    \/ FindStep
    \/ FindFallback

SpecFind == InitFind /\ [][NextFind]_vars

\* The requester directory and its ancestors up to the project root, in order.
RECURSIVE ChainToRoot(_)
ChainToRoot(dir) ==
    IF dir = RootDir \/ dir = FsRoot THEN <<dir>>
    ELSE <<dir>> \o ChainToRoot(Dirname(dir))

InstalledAt(dir) == fsLinks[Candidate(dir, find.dependencyName)] # Absent

(* C8: hoisting resolution.  For a requester directory at or below the      *)
(* project root the resolver examines the requester directory, then its     *)
(* ancestors in order, and nothing above the project root; it stops at the  *)
(* nearest directory of that chain that has node_modules/<name> and returns *)
(* that candidate, or returns null after the root (which the final check    *)
(* examines once more); every step before the end can be taken and takes    *)
(* the walk one directory further, so it ends.                              *)
C8_HoistingResolution ==
    (pc = "find" /\ IsPrefix(RootDir, find.startDir)) =>
        LET chain    == ChainToRoot(find.startDir)
            examined == find.examined
            hits     == {i \in 1..Len(chain) : InstalledAt(chain[i])}
            nearest  == CHOOSE i \in hits : \A j \in hits : i <= j
        IN  /\ \A i \in 1..Len(examined) : IsPrefix(RootDir, examined[i])
            /\ Len(examined) <= Len(chain) + 1
            /\ \A i \in 1..Len(examined) :
                 examined[i] = IF i <= Len(chain) THEN chain[i] ELSE RootDir
            /\ find.status = "walk" =>
                 /\ Len(examined) < Len(chain)
                 /\ find.currentDir = chain[Len(examined) + 1]
                 /\ \A i \in 1..Len(examined) : ~InstalledAt(chain[i])
            /\ find.status # "done" => ENABLED NextFind
            /\ find.status = "done" =>
                 IF hits # {}
                 THEN /\ find.result = Candidate(chain[nearest], find.dependencyName)
                      /\ Len(examined) = nearest
                 ELSE /\ find.result = NullPath
                      /\ Len(examined) = Len(chain) + 1

\* The requester is three levels below the root and only the root has the package.
C8_Witness ==
    /\ pc = "find"
    /\ find.status = "done"
    /\ find.startDir = DirScoped
    /\ find.result = Candidate(RootDir, find.dependencyName)
    /\ find.examined = <<DirScoped, Dirname(DirScoped), Dirname(Dirname(DirScoped)),
                         RootDir>>

(***************************************************************************)
(* Error handling of the builder                                           *)
(***************************************************************************)
ChildAliases(entries) == {entries[i].alias : i \in 1..Len(entries)}

\* The aliases a frame or a built node holds a child for.
FrameAliases(f) == ChildAliases(f.dependencies) \cup ChildAliases(f.optionalDependencies)

NodeAliases(node) ==
    ChildAliases(node.dependencies.entries)
        \cup ChildAliases(node.optionalDependencies.entries)

\* The step is a loadDependency call returning null because nothing is installed.
ReturnsNotFound == find.status = "done" /\ find.result = NullPath /\ find'.status = "idle"

(* C9: unresolved dependencies are not fatal.  When the resolver finds no   *)
(* installation for an alias, required or optional, loadDependency returns  *)
(* null: the step raises nothing, changes no cache and no allocator table,  *)
(* adds no child to the caller and moves the caller to its next alias; the  *)
(* alias is in no resolved map of the requester's node; and a run ends in   *)
(* an error only through an unreadable manifest.                            *)
C9_UnresolvedNotFatal ==
    /\ [][ReturnsNotFound =>
            /\ pc' = "build"
            /\ UNCHANGED <<dependencyCacheByPath, processingPaths, referenceByPath,
                           pathByNameVersion, allocLog, heap, fsManifests>>
            /\ Len(stack') = Len(stack)
            /\ Top(stack').i = Top(stack).i + 1
            /\ Top(stack').dependencies = Top(stack).dependencies
            /\ Top(stack').optionalDependencies = Top(stack).optionalDependencies
            /\ <<Top(stack).realDir, NextAlias(Top(stack))>> \in hist'.notFound]_vars
    /\ [](\A nf \in hist.notFound :
            /\ \A i \in 1..Len(stack) :
                 stack[i].realDir = nf[1] => nf[2] \notin FrameAliases(stack[i])
            /\ \A n \in DOMAIN heap :
                 heap[n].path = nf[1] => nf[2] \notin NodeAliases(heap[n]))
    /\ [](pc \in {"unwind", "error"} => hist.failed # {})
    /\ []((pc = "build" /\ hist.notFound # {}) => ENABLED Build)

\* A required and an optional alias were not found and the tree was returned.
C9_Witness ==
    /\ pc = "built"
    /\ \E nf \in hist.notFound : nf[1] = RootDir
    /\ \E nf \in hist.notFound : nf[1] # RootDir
    /\ Cardinality(DOMAIN dependencyCacheByPath) >= 1

(* C10: a manifest failure is fatal.  Once the manifest of the root or of   *)
(* a directory the builder started to resolve could not be read, the run    *)
(* only unwinds its call chain into the error state: no tree is returned,   *)
(* nothing more is searched, read, built, cached or allocated, and the      *)
(* failing path has no cached node and no reference.                        *)
C10_ManifestFailureFatal ==
    /\ [](hist.failed # {} =>
            /\ pc \in {"unwind", "error"}
            /\ tree = NoTree
            /\ find.status = "idle"
            /\ pc = "error" <=> stack = <<>>
            /\ \A dir \in hist.failed :
                 /\ fsManifests[dir] = Unreadable
                 /\ ~Has(dependencyCacheByPath, dir)
                 /\ ~Has(referenceByPath, dir)
                 /\ ~Has(heap, dir))
    /\ [][hist.failed # {} =>
            /\ UNCHANGED <<fsVars, find, heap, tree, dependencyCacheByPath, allocVars,
                           outVars, hist>>
            /\ Len(stack') = Len(stack) - 1]_vars
    /\ [](\A dir \in DOMAIN fsManifests :
            (fsManifests[dir] = Unreadable /\ find.status = "idle") => dir \in hist.failed)

\* The failure was raised two calls deep and the run has ended.
C10_Witness ==
    /\ pc = "error"
    /\ hist.failed # {} /\ RootDir \notin hist.failed
    /\ Len(hist.started) >= 2
    /\ Cardinality(DOMAIN dependencyCacheByPath) >= 1

(***************************************************************************)
(* The in-progress set and the path cache of the builder                   *)
(***************************************************************************)
\* The real paths whose loadDependency is on the current call chain.
ChainPaths == {stack[i].realDir : i \in {j \in 1..Len(stack) : stack[j].kind = "dep"}}

\* The search of the running request has ended at a path marked in-progress.
InProgressRequest ==
    /\ pc = "build"
    /\ find.status = "done"
    /\ find.result # NullPath
    /\ ResolvePath(find.result) \in processingPaths

(* C11: cycle guard.  processingPaths is at every point exactly the set of  *)
(* real paths whose loadDependency is on the call chain (each once), and no *)
(* path is both in processingPaths and in dependencyCacheByPath; so a       *)
(* request that reaches an in-progress path returns null: the caller moves  *)
(* to its next alias with no child added, no call is entered, no manifest   *)
(* is read, nothing is cached or allocated; and the path it was returned    *)
(* for is the requester's own or that of a caller further up the chain.     *)
C11_CycleGuard ==
    /\ [](/\ processingPaths = ChainPaths
          /\ Cardinality(ChainPaths)
                 = Cardinality({j \in 1..Len(stack) : stack[j].kind = "dep"}))
    /\ [](processingPaths \cap DOMAIN dependencyCacheByPath = {})
    /\ [][InProgressRequest =>
            /\ pc' = "build"
            /\ ResolvePath(find.result) \in ChainPaths
            /\ Len(stack') = Len(stack)
            /\ Top(stack').i = Top(stack).i + 1
            /\ Top(stack').dependencies = Top(stack).dependencies
            /\ Top(stack').optionalDependencies = Top(stack).optionalDependencies
            /\ hist'.reads = hist.reads /\ hist'.started = hist.started
            /\ <<Top(stack).realDir, ResolvePath(find.result)>> \in hist'.guarded
            /\ UNCHANGED <<fsManifests, heap, dependencyCacheByPath, processingPaths,
                           allocVars>>]_vars
    /\ [](\A g \in hist.guarded : g[2] \in Range(hist.started))

\* A package that requires itself and one that requires its requester were
\* both cut short, and the tree was returned.
C11_Witness ==
    /\ pc = "built"
    /\ \E g \in hist.guarded : g[1] = g[2]
    /\ \E g \in hist.guarded : g[1] # g[2]

\* The search of the running request has ended at a path that is cached.
CacheHit ==
    /\ pc = "build"
    /\ find.status = "done"
    /\ find.result # NullPath
    /\ ResolvePath(find.result) \in DOMAIN dependencyCacheByPath

AllocatedDirs(dir) == {i \in 1..Len(allocLog) : allocLog[i].realDir = dir}

\* The child entry of the node an edge of the Production Graph was pushed for.
EdgeChild(e) ==
    LET entries == IF e.optional THEN heap[e.node].optionalDependencies.entries
                   ELSE heap[e.node].dependencies.entries
    IN  entries[CHOOSE i \in 1..Len(entries) : entries[i].alias = e.alias].node

\* The nodes and running calls that hold node as a child, by object identity.
Holders(node) ==
    {n \in DOMAIN heap : \E c \in Range(Children(heap[n])) : c.node = node}

(* C12: resolve-once memoization.  In one tree build every real path other  *)
(* than the root directory has its manifest read, its loadDependency body   *)
(* entered and its reference allocated at most once; a request that reaches *)
(* a cached path, from any requester and under any alias, gives the caller  *)
(* the cached node as the child for that alias and reads, enters, caches    *)
(* and allocates nothing; a cache entry and the node it holds never change; *)
(* so every child entry for a path is the one cached node of that path, and *)
(* every edge of the Production Graph to it carries its name@reference id.  *)
C12_ResolveOnce ==
    /\ [](\A dir \in Dirs \ {RootDir} :
            /\ Occurrences(hist.reads, dir) <= 1
            /\ Occurrences(hist.started, dir) <= 1
            /\ Cardinality(AllocatedDirs(dir)) <= 1)
    /\ [][CacheHit =>
            LET f     == Top(stack)
                child == Child(NextAlias(f), dependencyCacheByPath[ResolvePath(find.result)])
            IN  /\ pc' = "build"
                /\ Len(stack') = Len(stack)
                /\ Top(stack').i = f.i + 1
                /\ IF NextIsOptional(f)
                   THEN /\ Top(stack').optionalDependencies
                              = Append(f.optionalDependencies, child)
                        /\ Top(stack').dependencies = f.dependencies
                   ELSE /\ Top(stack').dependencies = Append(f.dependencies, child)
                        /\ Top(stack').optionalDependencies = f.optionalDependencies
                /\ hist'.reads = hist.reads /\ hist'.started = hist.started
                /\ UNCHANGED <<fsManifests, heap, dependencyCacheByPath, processingPaths,
                               allocVars>>]_vars
    /\ [][\A dir \in DOMAIN dependencyCacheByPath :
              /\ Has(dependencyCacheByPath', dir)
              /\ dependencyCacheByPath'[dir] = dependencyCacheByPath[dir]
              /\ heap'[dependencyCacheByPath[dir]] = heap[dependencyCacheByPath[dir]]]_vars
    /\ [](\A dir \in DOMAIN dependencyCacheByPath :
            heap[dependencyCacheByPath[dir]].path = dir)
    /\ [](\A n \in DOMAIN heap : \A c \in Range(Children(heap[n])) :
            /\ Has(dependencyCacheByPath, heap[c.node].path)
            /\ c.node = dependencyCacheByPath[heap[c.node].path])
    /\ [](\A e \in hist.edges : e.childId = NodeKey(heap[EdgeChild(e)]))

\* A diamond: the second parent of an installation got the cached node, and
\* the Production Graph has an edge to it from both parents under one id.
C12_Witness ==
    /\ pc = "extracted"
    /\ \E dir \in DOMAIN dependencyCacheByPath :
         /\ Cardinality(Holders(dependencyCacheByPath[dir])) >= 2
         /\ Cardinality({r \in hist.resolved : r[3] = dir}) >= 2
         /\ Occurrences(hist.reads, dir) = 1
         /\ \E e1 \in hist.edges, e2 \in hist.edges :
              /\ e1.node # e2.node
              /\ EdgeChild(e1) = dependencyCacheByPath[dir]
              /\ EdgeChild(e2) = dependencyCacheByPath[dir]
              /\ e1.childId = e2.childId

(***************************************************************************)
(* The Production Graph of a built tree                                    *)
(***************************************************************************)
\* The ids of the entries of a child map whose alias is a key of the manifest
\* map, in the order of the child map.
KeyedEdges(entries, manifest) ==
    LET kept == SelectSeq(entries, LAMBDA c : HasKey(manifest, c.alias))
    IN  [i \in 1..Len(kept) |-> NodeKey(heap[kept[i].node])]

\* The next child of the running extractor call has its alias as a key of the
\* corresponding manifest map of the node.
NextIsKeyed ==
    /\ pc = "extract"
    /\ Top(estack).i < Len(Children(heap[Top(estack).node]))
    /\ HasKey(ExtractNext(Top(estack)).manifest, ExtractNext(Top(estack)).child.alias)

(* C13, as claimed: production inclusion.  For every node the extractor has *)
(* processed, the list stored under its id holds, in order, the             *)
(* name@reference id of every child of dependencies whose alias is a key of *)
(* manifestDependencies and then of every child of optionalDependencies     *)
(* whose alias is a key of manifestOptionalDependencies, whatever range the *)
(* key maps to; and a step on such a child pushes its id and, unless the id *)
(* has an entry already, enters the child before the next alias is handled. *)
C13_ProductionInclusion ==
    /\ [](\A id \in DOMAIN productionGraph :
            LET node == heap[NodeOfId(id)]
            IN  productionGraph[id].dependencies
                  = KeyedEdges(node.dependencies.entries, node.manifestDependencies)
                    \o KeyedEdges(node.optionalDependencies.entries,
                                  node.manifestOptionalDependencies))
    /\ [][(NextIsKeyed /\ estack' # estack) =>
            LET f       == Top(estack)
                dep     == ExtractNext(f).child.node
                childId == NodeKey(heap[dep])
            IN  /\ estack'[Len(estack)].i = f.i + 1
                /\ estack'[Len(estack)].dependencies = Append(f.dependencies, childId)
                /\ IF Has(productionGraph, childId)
                   THEN Len(estack') = Len(estack)
                   ELSE Len(estack') = Len(estack) + 1
                          /\ Top(estack') = ExtractFrame(dep, childId)]_vars

\* The extractor runs to its end unless it cannot take a step.
FairSpecExtract == SpecExtract /\ WF_vars(NextExtract)

\* The next child of the running extractor call has an id that has an entry.
NextHasEntry ==
    /\ pc = "extract"
    /\ Top(estack).i < Len(Children(heap[Top(estack).node]))
    /\ Has(productionGraph, NodeKey(heap[ExtractNext(Top(estack)).child.node]))

(* C14, as claimed: the extractor's memoization is a cycle and diamond      *)
(* guard.  A call for an id that has an entry returns at once and leaves    *)
(* the Production Graph as it was; and on every finite node structure, one  *)
(* in which a node is reachable from itself included, no id is being        *)
(* processed twice on one call chain, no id is stored twice, and the        *)
(* extraction ends.                                                         *)
C14_ExtractorMemoization ==
    /\ [][(NextHasEntry /\ estack' # estack) =>
            Len(estack') = Len(estack) /\ productionGraph' = productionGraph]_vars
    /\ [](\A i \in 1..Len(estack), j \in 1..Len(estack) :
            i < j => estack[i].dependencyId # estack[j].dependencyId)
    /\ [](\A id \in DOMAIN productionGraph : Occurrences(hist.stored, id) = 1)
    /\ <>(pc = "extracted")

(***************************************************************************)
(* Shape of the tree the builder returns                                   *)
(***************************************************************************)
\* The real paths the Installed-Path Resolver returned a match for.
ResolvedPaths == {r[3] : r \in hist.resolved}

(* C15: cycles drop edges, never packages.  When getDependenciesTree has    *)
(* returned (so every manifest it read was readable), every real path the   *)
(* resolver returned a match for, on a cycle or not, has a cached node that *)
(* is reachable from the returned root through dependencies and             *)
(* optionalDependencies; and after collectAllDependencies that node is the  *)
(* entry of its name@reference key in the Transitive Map.                   *)
C15_NoPackageDropped ==
    /\ (pc = "built" \/ Collected) =>
         \A dir \in ResolvedPaths :
             /\ Has(dependencyCacheByPath, dir)
             /\ dependencyCacheByPath[dir] \in ReachableNodes \ {tree}
    /\ Collected =>
         \A dir \in ResolvedPaths :
             LET key == NodeKey(heap[dependencyCacheByPath[dir]])
             IN  Has(allDependencies, key) /\ allDependencies[key] = dependencyCacheByPath[dir]

\* A request was cut short by the cycle guard: the requester's node has no
\* child for the path, and the path still has its entry.
C15_Witness ==
    /\ pc = "collected"
    /\ \E g \in hist.guarded :
         /\ g[1] # g[2]
         /\ g[2] \notin {c.node : c \in Range(Children(heap[dependencyCacheByPath[g[1]]]))}
         /\ g[1] \in {c.node : c \in Range(Children(heap[dependencyCacheByPath[g[2]]]))}
         /\ EntriesOf(dependencyCacheByPath[g[2]])
                = {NodeKey(heap[dependencyCacheByPath[g[2]]])}

\* The children of a node that are built objects.
Succ(n) == IF n \in DOMAIN heap
           THEN {c.node : c \in Range(Children(heap[n]))} \cap DOMAIN heap
           ELSE {}

RECURSIVE ReachFrom(_, _)
ReachFrom(nodes, n) ==
    IF n = 0 THEN nodes ELSE ReachFrom(nodes \cup UNION {Succ(x) : x \in nodes}, n - 1)

\* The children a running call has collected so far.
FrameChildren(f) == Range(f.dependencies) \cup Range(f.optionalDependencies)

(* C16: the node structure is acyclic.  Whatever the installation graph,    *)
(* cyclic ones included, no node the builder has made is reachable from     *)
(* itself through dependencies and optionalDependencies: every child a      *)
(* running call or a finished node holds is a finished, cached node, and    *)
(* never the node of a path that is still in progress.                      *)
C16_TreeAcyclic ==
    /\ \A n \in DOMAIN heap : n \notin ReachFrom(Succ(n), Cardinality(DOMAIN heap))
    /\ \A i \in 1..Len(stack) : \A c \in FrameChildren(stack[i]) :
         /\ c.node \in DOMAIN heap
         /\ heap[c.node].path \notin processingPaths
         /\ dependencyCacheByPath[heap[c.node].path] = c.node
    /\ \A n \in DOMAIN heap : \A c \in Range(Children(heap[n])) : c.node \in DOMAIN heap

\* Two installations that require each other, among three or more built into a
\* tree: one holds the other, and not the other way round.
C16_Witness ==
    /\ pc = "built"
    /\ Cardinality(DOMAIN dependencyCacheByPath) >= 3
    /\ \E p \in DOMAIN dependencyCacheByPath, q \in DOMAIN dependencyCacheByPath :
         /\ p # q /\ OnCycle(p) /\ OnCycle(q)
         /\ p \in RequiredBy(q) /\ q \in RequiredBy(p)
         /\ q \in ReachFrom({p}, Cardinality(DOMAIN heap))
         /\ p \notin ReachFrom({q}, Cardinality(DOMAIN heap))

\* getDependenciesTree has finished: it returned a tree or it threw.
TreeReturned == pc = "built" \/ Collected

TreeFailed == pc = "error"

(* C17: the in-progress set is always released.  Whenever getDependenciesTree *)
(* has finished, with a tree or with a manifest error raised at any depth  *)
(* of the recursion, processingPaths is empty; and after a build that       *)
(* returned a tree every path that was marked in-progress has a node in     *)
(* dependencyCacheByPath.                                                   *)
C17_InProgressReleased ==
    /\ (TreeReturned \/ TreeFailed) => processingPaths = {}
    /\ TreeReturned =>
         \A dir \in Range(hist.started) :
             /\ Has(dependencyCacheByPath, dir)
             /\ heap[dependencyCacheByPath[dir]].path = dir

\* The error was raised below two running loadDependency calls, which were
\* abandoned with their paths marked and not cached.
C17_Witness ==
    /\ TreeFailed
    /\ processingPaths = {}
    /\ Cardinality({dir \in Range(hist.started) :
                       dir \notin hist.failed /\ ~Has(dependencyCacheByPath, dir)}) >= 2

\* The ids that appear in the stored edge lists.
EdgeIds == UNION {Range(productionGraph[id].dependencies) : id \in DOMAIN productionGraph}

(* C18: Production Graph closure.  After the extraction on a tree built by  *)
(* getDependenciesTree has completed, every id in a stored edge list has an *)
(* entry of its own in the Production Graph, and every key of the           *)
(* Production Graph other than the root id is a key of the Transitive Map   *)
(* that collectAllDependencies produced from the same tree.                 *)
C18_ProductionClosure ==
    pc = "extracted" =>
        /\ EdgeIds \subseteq DOMAIN productionGraph
        /\ (DOMAIN productionGraph) \ {RootId} \subseteq DOMAIN allDependencies
        /\ Has(productionGraph, RootId)

\* A graph of three entries with edges, and a collected package that is no
\* production dependency.
C18_Witness ==
    /\ pc = "extracted"
    /\ Cardinality(DOMAIN productionGraph) >= 3
    /\ Cardinality(EdgeIds) >= 2
    /\ (DOMAIN productionGraph) \ {RootId} # DOMAIN allDependencies

\* Object.keys of a manifest map.
Keys(manifest) == {manifest[j].alias : j \in 1..Len(manifest)}

(* C19: the builder's output is manifest-consistent.  In every node made by *)
(* getDependenciesTree, the root included, every alias of dependencies is a *)
(* key of the node's manifestDependencies, every alias of                   *)
(* optionalDependencies is a key of its manifestOptionalDependencies, and a *)
(* child map is present only when it has at least one alias (and is absent  *)
(* only when it has none).                                                  *)
C19_ManifestConsistent ==
    \A n \in DOMAIN heap :
        LET node == heap[n]
        IN  /\ ChildAliases(node.dependencies.entries) \subseteq Keys(node.manifestDependencies)
            /\ ChildAliases(node.optionalDependencies.entries)
                   \subseteq Keys(node.manifestOptionalDependencies)
            /\ node.dependencies.present <=> Len(node.dependencies.entries) > 0
            /\ node.optionalDependencies.present
                   <=> Len(node.optionalDependencies.entries) > 0

\* The returned root has both maps; a node below it declares a dependency it
\* has no child for and has no child map at all.
C19_Witness ==
    /\ pc = "built"
    /\ heap[tree].dependencies.present /\ heap[tree].optionalDependencies.present
    /\ \E n \in DOMAIN heap \ {tree} :
         /\ Keys(heap[n].manifestDependencies) # {}
         /\ ~heap[n].dependencies.present
         /\ ~heap[n].optionalDependencies.present

====
